---- MODULE Spec2Model ----
(***************************************************************************)
(* Model of the access-decision core of cerberus: the origin parser        *)
(* (Origin::try_from), the origin matcher (Origin::matches and the reverse *)
(* mode) and ProjectData::validate_access with its per-source allow-list   *)
(* checks.  Strings are sequences of one-character strings, so that the    *)
(* parser works on the characters exactly as the regular expression does.  *)
(***************************************************************************)
EXTENDS Naturals, Sequences, FiniteSets

VARIABLES
    \* a call of validate_access: the record, the arguments, the result
    project, id, auth_origin, source, result,
    \* the results of the same call on other records, a function of the record
    alt,
    \* the calls of validate_access in progress, one per task: arguments,
    \* position in the function body, local values, returned result
    tasks,
    \* a call of the matcher: self, other, the operation, its verdict
    lhs, rhs, op, verdict,
    \* a call of the parser: the string, the result of try_from and the
    \* result's Display output; a suffix and the result of try_from on the
    \* string with the suffix appended
    input, parse_out, shown, tail, tail_out,
    \* a fetch of the registry client: the call, its position, the requests
    \* sent, the response received, the value returned
    registry,
    \* the project cache: the stored entries, the spawned writes that have not
    \* run yet, the calls of set made so far, the most recent fetch
    cache

accessVars == <<project, id, auth_origin, source, result, alt, tasks>>

matchVars == <<lhs, rhs, op, verdict>>

parseVars == <<input, parse_out, shown, tail, tail_out>>

registryVars == <<registry, cache>>

vars == <<accessVars, matchVars, parseVars, registryVars>>

----------------------------------------------------------------------------
(* Bounds of the model. *)

\* a project holds at most MaxKeys keys
MaxKeys == 2

\* a project holds at most MaxEntries allow-list entries over its three lists
MaxEntries == 2

\* at most MaxTasks tasks call validate_access at the same time
MaxTasks == 2

\* the cache sees at most MaxCalls calls of set
MaxCalls == 2

\* the hostnames the matcher is called on have at most MaxSegs segments
MaxSegs == 2

\* the parser is called on every string of at most MaxLen characters
MaxLen == 5

----------------------------------------------------------------------------
(* Characters and strings. *)

AsciiDigits == {"0", "1", "2", "3", "4", "5", "6", "7", "8", "9"}

\* Decimal digits outside ASCII: the regex class \d is Unicode-aware, u16's
\* FromStr is not.
NonAsciiDigits == {"U+0663"}

DigitChars == AsciiDigits \cup NonAsciiDigits

DigitValue(c) ==
    CASE c = "0" -> 0 [] c = "1" -> 1 [] c = "2" -> 2 [] c = "3" -> 3
      [] c = "4" -> 4 [] c = "5" -> 5 [] c = "6" -> 6 [] c = "7" -> 7
      [] c = "8" -> 8 [] c = "9" -> 9

\* first position at or after i whose character is in stop (Len(s) + 1 if none)
RECURSIVE RunNotIn(_, _, _)
RunNotIn(s, i, stop) ==
    IF i <= Len(s) /\ s[i] \notin stop THEN RunNotIn(s, i + 1, stop) ELSE i

\* first position at or after i whose character is not in class
RECURSIVE RunIn(_, _, _)
RunIn(s, i, class) ==
    IF i <= Len(s) /\ s[i] \in class THEN RunIn(s, i + 1, class) ELSE i

HasAt(s, i, c) == i <= Len(s) /\ s[i] = c

\* str::split(sep): the pieces between separators, empty pieces kept
RECURSIVE split(_, _)
split(s, sep) ==
    LET i == RunNotIn(s, 1, {sep})
    IN  IF i > Len(s) THEN <<s>>
        ELSE <<SubSeq(s, 1, i - 1)>> \o split(SubSeq(s, i + 1, Len(s)), sep)

\* value of a run of ASCII digits
RECURSIVE DecimalValue(_)
DecimalValue(ds) ==
    IF ds = <<>> THEN 0
    ELSE DecimalValue(SubSeq(ds, 1, Len(ds) - 1)) * 10 + DigitValue(ds[Len(ds)])

U16_MAX == 65535

\* str::parse::<u16>() succeeds on a non-empty ASCII digit run that fits 16 bits
ParsesAsU16(ds) ==
    /\ ds # <<>>
    /\ \A i \in 1..Len(ds) : ds[i] \in AsciiDigits
    /\ DecimalValue(ds) <= U16_MAX

----------------------------------------------------------------------------
(* Origin parser. *)

\* ([^:]+)(:([\d]+))? at position i: the hostname runs up to the next colon
HostAndPort_host_to_colon(s, i, scheme) ==
    LET j == RunNotIn(s, i, {":"})
        k == IF HasAt(s, j, ":") THEN RunIn(s, j + 1, DigitChars) ELSE j + 1
    IN  [matched  |-> j > i,
         scheme   |-> scheme,
         hostname |-> SubSeq(s, i, j - 1),
         port     |-> IF HasAt(s, j, ":") /\ k > j + 1
                      THEN <<SubSeq(s, j + 1, k - 1)>> ELSE <<>>]

\* ([^:/]+)(:([\d]+))? at position i, after an already captured scheme
HostAndPort(s, i, scheme) ==
    LET j == RunNotIn(s, i, {":", "/"})
        k == IF HasAt(s, j, ":") THEN RunIn(s, j + 1, DigitChars) ELSE j + 1
    IN  [matched  |-> j > i,
         scheme   |-> scheme,
         hostname |-> SubSeq(s, i, j - 1),
         port     |-> IF HasAt(s, j, ":") /\ k > j + 1
                      THEN <<SubSeq(s, j + 1, k - 1)>> ELSE <<>>]

\* the regular expression without giving up the scheme group
ORIGIN_PARSER_REGEX_scheme_kept(s) ==
    LET c == RunNotIn(s, 1, {":"})
        withScheme == /\ c > 1
                      /\ HasAt(s, c, ":")
                      /\ HasAt(s, c + 1, "/")
                      /\ HasAt(s, c + 2, "/")
    IN  IF withScheme THEN HostAndPort(s, c + 3, <<SubSeq(s, 1, c - 1)>>)
        ELSE HostAndPort(s, 1, <<>>)

\* ^(([^:]+)://)?([^:/]+)(:([\d]+))? : the scheme group is tried first and
\* given up when no hostname follows it
ORIGIN_PARSER_REGEX(s) ==
    LET c == RunNotIn(s, 1, {":"})
        withScheme == /\ c > 1
                      /\ HasAt(s, c, ":")
                      /\ HasAt(s, c + 1, "/")
                      /\ HasAt(s, c + 2, "/")
        a == HostAndPort(s, c + 3, <<SubSeq(s, 1, c - 1)>>)
    IN  IF withScheme /\ a.matched THEN a ELSE HostAndPort(s, 1, <<>>)

NoOrigin == [scheme |-> <<>>, hostname |-> <<>>, hostname_parts |-> <<>>, port |-> <<>>]

NonEmptyPiece(piece) == piece # <<>>

\* Origin::try_from with the empty pieces of the hostname dropped
try_from_empty_pieces_dropped(s) ==
    LET caps == ORIGIN_PARSER_REGEX(s)
    IN  IF ~caps.matched
        THEN [ok |-> FALSE, err |-> "InvalidFormat", origin |-> NoOrigin]
        ELSE IF caps.port # <<>> /\ ~ParsesAsU16(caps.port[1])
        THEN [ok |-> FALSE, err |-> "InvalidPortNumber", origin |-> NoOrigin]
        ELSE [ok |-> TRUE, err |-> "",
              origin |-> [scheme         |-> caps.scheme,
                          hostname       |-> caps.hostname,
                          hostname_parts |-> SelectSeq(split(caps.hostname, "."),
                                                       NonEmptyPiece),
                          port           |-> IF caps.port = <<>> THEN <<>>
                                             ELSE <<DecimalValue(caps.port[1])>>]]

\* Origin::try_from: an Option is a sequence of length 0 or 1
try_from(s) ==
    LET caps == ORIGIN_PARSER_REGEX(s)
    IN  IF ~caps.matched
        THEN [ok |-> FALSE, err |-> "InvalidFormat", origin |-> NoOrigin]
        ELSE IF caps.port # <<>> /\ ~ParsesAsU16(caps.port[1])
        THEN [ok |-> FALSE, err |-> "InvalidPortNumber", origin |-> NoOrigin]
        ELSE [ok |-> TRUE, err |-> "",
              origin |-> [scheme         |-> caps.scheme,
                          hostname       |-> caps.hostname,
                          hostname_parts |-> split(caps.hostname, "."),
                          port           |-> IF caps.port = <<>> THEN <<>>
                                             ELSE <<DecimalValue(caps.port[1])>>]]

\* the pieces between the separators put back together
RECURSIVE Join(_, _)
Join(parts, sep) ==
    IF Len(parts) = 1 THEN parts[1]
    ELSE parts[1] \o <<sep>> \o Join(Tail(parts), sep)

DigitChar(d) ==
    CASE d = 0 -> "0" [] d = 1 -> "1" [] d = 2 -> "2" [] d = 3 -> "3"
      [] d = 4 -> "4" [] d = 5 -> "5" [] d = 6 -> "6" [] d = 7 -> "7"
      [] d = 8 -> "8" [] d = 9 -> "9"

\* "{port}": the decimal digits of a u16, no padding
RECURSIVE Decimal(_)
Decimal(n) ==
    IF n < 10 THEN <<DigitChar(n)>>
    ELSE Decimal(n \div 10) \o <<DigitChar(n % 10)>>

\* Display for Origin without the port
fmt_no_port(origin) ==
    (IF origin.scheme # <<>> THEN origin.scheme[1] \o <<":", "/", "/">> ELSE <<>>)
    \o Join(origin.hostname_parts, ".")

\* Display for Origin
fmt(origin) ==
    (IF origin.scheme # <<>> THEN origin.scheme[1] \o <<":", "/", "/">> ELSE <<>>)
    \o Join(origin.hostname_parts, ".")
    \o (IF origin.port # <<>> THEN <<":">> \o Decimal(origin.port[1]) ELSE <<>>)

----------------------------------------------------------------------------
(* Origin matcher. *)

WILDCARD == <<"*">>

\* Origin::matches with the schemes compared for equality, absence included
matches_strict_scheme(self, other) ==
    IF self.scheme # other.scheme
    THEN FALSE
    ELSE IF self.port # other.port
    THEN FALSE
    ELSE IF Len(self.hostname_parts) # Len(other.hostname_parts)
    THEN FALSE
    ELSE \A i \in 1..Len(self.hostname_parts) :
            \/ self.hostname_parts[i] = WILDCARD
            \/ self.hostname_parts[i] = other.hostname_parts[i]

\* Origin::matches with the wildcard recognised on either side
matches_wildcard_either_side(self, other) ==
    IF self.scheme # <<>> /\ other.scheme # <<>> /\ self.scheme # other.scheme
    THEN FALSE
    ELSE IF self.port # other.port
    THEN FALSE
    ELSE IF Len(self.hostname_parts) # Len(other.hostname_parts)
    THEN FALSE
    ELSE \A i \in 1..Len(self.hostname_parts) :
            \/ self.hostname_parts[i] = WILDCARD
            \/ other.hostname_parts[i] = WILDCARD
            \/ self.hostname_parts[i] = other.hostname_parts[i]

\* Origin::matches: lenient scheme, equal ports, equal segment count, forward
\* segment comparison with the wildcard recognised on the self side
matches(self, other) ==
    IF self.scheme # <<>> /\ other.scheme # <<>> /\ self.scheme # other.scheme
    THEN FALSE
    ELSE IF self.port # other.port
    THEN FALSE
    ELSE IF Len(self.hostname_parts) # Len(other.hostname_parts)
    THEN FALSE
    ELSE \A i \in 1..Len(self.hostname_parts) :
            \/ self.hostname_parts[i] = WILDCARD
            \/ self.hostname_parts[i] = other.hostname_parts[i]

\* Origin::matches_rev: the reverse mode of the matcher; other's segments are
\* read back-to-front
matches_rev(self, other) ==
    LET n == Len(self.hostname_parts)
    IN  IF self.scheme # <<>> /\ other.scheme # <<>> /\ self.scheme # other.scheme
        THEN FALSE
        ELSE IF self.port # <<>> /\ other.port # <<>> /\ self.port # other.port
        THEN FALSE
        ELSE IF n # Len(other.hostname_parts)
        THEN FALSE
        ELSE \A i \in 1..n :
                \/ self.hostname_parts[i] = WILDCARD
                \/ self.hostname_parts[i] = other.hostname_parts[n + 1 - i]

\* the flags of MatchingPolicy; a policy is a set of flags
MatchingPolicy ==
    SUBSET {"CheckScheme", "CheckPort", "AllowBundleID", "AllowEmptyScheme", "AllowEmptyPort"}

\* MatchingPolicy::default(): CheckAll | AllowEmptyScheme
\* a default policy that also lets an absent port pass
DefaultPolicy_empty_port ==
    {"CheckScheme", "CheckPort", "AllowEmptyScheme", "AllowEmptyPort"}

DefaultPolicy == {"CheckScheme", "CheckPort", "AllowEmptyScheme"}

\* the scheme and port checks of matches_opt: TRUE when one of them fails
opt_checks_fail(self, other, policy) ==
    \/ /\ "CheckScheme" \in policy
       /\ IF "AllowEmptyScheme" \in policy
          THEN self.scheme # <<>> /\ other.scheme # <<>> /\ self.scheme # other.scheme
          ELSE self.scheme # other.scheme
    \/ /\ "CheckPort" \in policy
       /\ IF "AllowEmptyPort" \in policy
          THEN self.port # <<>> /\ other.port # <<>> /\ self.port # other.port
          ELSE self.port # other.port

Min(a, b) == IF a <= b THEN a ELSE b

\* Origin::matches_opt without the segment-count check: zip stops at the
\* shorter of the two sequences
matches_opt_no_len_check(self, other, policy) ==
    LET n == Len(self.hostname_parts)
        m == Len(other.hostname_parts)
    IN  IF opt_checks_fail(self, other, policy) THEN FALSE
        ELSE \/ \A i \in 1..Min(n, m) :
                   \/ self.hostname_parts[i] = WILDCARD
                   \/ self.hostname_parts[i] = other.hostname_parts[i]
             \/ /\ "AllowBundleID" \in policy
                /\ \A i \in 1..Min(n, m) :
                      \/ self.hostname_parts[i] = WILDCARD
                      \/ self.hostname_parts[i] = other.hostname_parts[m + 1 - i]

\* Origin::matches_opt whose bundle-id comparison does not reverse other
matches_opt_bundle_forward(self, other, policy) ==
    IF opt_checks_fail(self, other, policy) THEN FALSE
    ELSE IF Len(self.hostname_parts) # Len(other.hostname_parts) THEN FALSE
    ELSE \A i \in 1..Len(self.hostname_parts) :
            \/ self.hostname_parts[i] = WILDCARD
            \/ self.hostname_parts[i] = other.hostname_parts[i]

\* Origin::matches_opt whose port check under CheckPort always lets an absent
\* port pass
matches_opt_port_lenient(self, other, policy) ==
    LET n == Len(self.hostname_parts)
    IN  IF /\ "CheckScheme" \in policy
           /\ IF "AllowEmptyScheme" \in policy
              THEN self.scheme # <<>> /\ other.scheme # <<>> /\ self.scheme # other.scheme
              ELSE self.scheme # other.scheme
        THEN FALSE
        ELSE IF /\ "CheckPort" \in policy
                /\ self.port # <<>> /\ other.port # <<>> /\ self.port # other.port
        THEN FALSE
        ELSE IF n # Len(other.hostname_parts)
        THEN FALSE
        ELSE \/ \A i \in 1..n :
                   \/ self.hostname_parts[i] = WILDCARD
                   \/ self.hostname_parts[i] = other.hostname_parts[i]
             \/ /\ "AllowBundleID" \in policy
                /\ \A i \in 1..n :
                      \/ self.hostname_parts[i] = WILDCARD
                      \/ self.hostname_parts[i] = other.hostname_parts[n + 1 - i]

\* Origin::matches_opt
matches_opt(self, other, policy) ==
    LET n == Len(self.hostname_parts)
        match_domain ==
            \A i \in 1..n :
                \/ self.hostname_parts[i] = WILDCARD
                \/ self.hostname_parts[i] = other.hostname_parts[i]
        match_bundle_id ==
            IF "AllowBundleID" \in policy
            THEN \A i \in 1..n :
                    \/ self.hostname_parts[i] = WILDCARD
                    \/ self.hostname_parts[i] = other.hostname_parts[n + 1 - i]
            ELSE FALSE
    IN  IF /\ "CheckScheme" \in policy
           /\ IF "AllowEmptyScheme" \in policy
              THEN self.scheme # <<>> /\ other.scheme # <<>> /\ self.scheme # other.scheme
              ELSE self.scheme # other.scheme
        THEN FALSE
        ELSE IF /\ "CheckPort" \in policy
                /\ IF "AllowEmptyPort" \in policy
                   THEN self.port # <<>> /\ other.port # <<>> /\ self.port # other.port
                   ELSE self.port # other.port
        THEN FALSE
        ELSE IF n # Len(other.hostname_parts)
        THEN FALSE
        ELSE match_domain \/ match_bundle_id

----------------------------------------------------------------------------
(* Access validator. *)

OriginSource == {"Header", "BundleId", "PackageName"}

ALLOWED_LOCAL_HOSTS ==
    { <<"l", "o", "c", "a", "l", "h", "o", "s", "t">>,
      <<"1", "2", "7", ".", "0", ".", "0", ".", "1">> }

\* header_loop without the reverse comparison
RECURSIVE header_loop_forward_only(_, _, _)
header_loop_forward_only(list, i, origin) ==
    IF i > Len(list) THEN "OriginNotAllowed"
    ELSE LET entry == try_from(list[i])
         IN  IF ~entry.ok THEN header_loop_forward_only(list, i + 1, origin)
             ELSE IF matches(entry.origin, origin) THEN "Ok"
             ELSE header_loop_forward_only(list, i + 1, origin)

\* header_loop that gives up at the first malformed entry
RECURSIVE header_loop_stops_at_malformed(_, _, _)
header_loop_stops_at_malformed(list, i, origin) ==
    IF i > Len(list) THEN "OriginNotAllowed"
    ELSE LET entry == try_from(list[i])
         IN  IF ~entry.ok THEN "OriginNotAllowed"
             ELSE IF matches(entry.origin, origin) \/ matches_rev(entry.origin, origin)
             THEN "Ok"
             ELSE header_loop_stops_at_malformed(list, i + 1, origin)

\* the loop of valiadte_origin_header over allowed_origins, from entry i on
RECURSIVE header_loop(_, _, _)
header_loop(list, i, origin) ==
    IF i > Len(list) THEN "OriginNotAllowed"
    ELSE LET entry == try_from(list[i])
         IN  IF ~entry.ok THEN header_loop(list, i + 1, origin)
             ELSE IF matches(entry.origin, origin) \/ matches_rev(entry.origin, origin)
             THEN "Ok"
             ELSE header_loop(list, i + 1, origin)

IsPrefix(p, s) == Len(p) <= Len(s) /\ SubSeq(s, 1, Len(p)) = p

\* valiadte_origin_header with the local hosts compared by prefix
valiadte_origin_header_prefix(self, origin, allow_empty) ==
    IF allow_empty /\ self.allowed_origins = <<>> THEN "Ok"
    ELSE IF \E host \in ALLOWED_LOCAL_HOSTS : IsPrefix(host, origin.hostname) THEN "Ok"
    ELSE header_loop(self.allowed_origins, 1, origin)

\* valiadte_origin_header whose local-host bypass is open to the Header call
\* only
valiadte_origin_header_bypass_on_flag(self, origin, allow_empty) ==
    IF allow_empty /\ self.allowed_origins = <<>> THEN "Ok"
    ELSE IF allow_empty /\ origin.hostname \in ALLOWED_LOCAL_HOSTS THEN "Ok"
    ELSE header_loop(self.allowed_origins, 1, origin)

valiadte_origin_header(self, origin, allow_empty) ==
    IF allow_empty /\ self.allowed_origins = <<>> THEN "Ok"
    ELSE IF origin.hostname \in ALLOWED_LOCAL_HOSTS THEN "Ok"
    ELSE header_loop(self.allowed_origins, 1, origin)

\* origin_loop with the reverse comparison added
RECURSIVE origin_loop_with_rev(_, _, _)
origin_loop_with_rev(list, i, origin) ==
    IF i > Len(list) THEN FALSE
    ELSE LET entry == try_from(list[i])
         IN  IF ~entry.ok THEN origin_loop_with_rev(list, i + 1, origin)
             ELSE IF matches(entry.origin, origin) \/ matches_rev(entry.origin, origin)
             THEN TRUE
             ELSE origin_loop_with_rev(list, i + 1, origin)

\* the loop of validate_origin over its allow_list, from entry i on; TRUE when
\* some entry matched
RECURSIVE origin_loop(_, _, _)
origin_loop(list, i, origin) ==
    IF i > Len(list) THEN FALSE
    ELSE LET entry == try_from(list[i])
         IN  IF ~entry.ok THEN origin_loop(list, i + 1, origin)
             ELSE IF matches(entry.origin, origin) THEN TRUE
             ELSE origin_loop(list, i + 1, origin)

\* validate_origin without the empty-list check
validate_origin_no_empty(self, origin, allow_list) ==
    IF origin_loop(allow_list, 1, origin) THEN "Ok"
    ELSE valiadte_origin_header(self, origin, FALSE)

\* validate_origin whose fallback treats an empty allowed_origins as allow-all
validate_origin_fallback_allow_empty(self, origin, allow_list) ==
    IF allow_list = <<>> THEN "Ok"
    ELSE IF origin_loop(allow_list, 1, origin) THEN "Ok"
    ELSE valiadte_origin_header(self, origin, TRUE)

\* validate_origin without the fallback to allowed_origins
validate_origin_no_fallback(self, origin, allow_list) ==
    IF allow_list = <<>> THEN "Ok"
    ELSE IF origin_loop(allow_list, 1, origin) THEN "Ok"
    ELSE "OriginNotAllowed"

validate_origin(self, origin, allow_list) ==
    IF allow_list = <<>> THEN "Ok"
    ELSE IF origin_loop(allow_list, 1, origin) THEN "Ok"
    ELSE valiadte_origin_header(self, origin, FALSE)

\* key_position without the is_valid test
key_position_any(keys, key_id) ==
    \E i \in 1..Len(keys) : keys[i].value = key_id

\* self.keys.iter().position(|key| key.value == id && key.is_valid).is_some()
key_position(keys, key_id) ==
    \E i \in 1..Len(keys) : keys[i].value = key_id /\ keys[i].is_valid

\* dispatch that checks a package name against bundle_ids
dispatch_package_reads_bundle(self, origin, src) ==
    CASE src = "Header"      -> valiadte_origin_header(self, origin, TRUE)
      [] src = "BundleId"    -> validate_origin(self, origin, self.bundle_ids)
      [] src = "PackageName" -> validate_origin(self, origin, self.bundle_ids)

\* the dispatch of validate_access on the source kind
dispatch(self, origin, src) ==
    CASE src = "Header"      -> valiadte_origin_header(self, origin, TRUE)
      [] src = "BundleId"    -> validate_origin(self, origin, self.bundle_ids)
      [] src = "PackageName" -> validate_origin(self, origin, self.package_names)

\* validate_access with the key looked up before the project's is_enabled
validate_access_key_first(self, key_id, origin_opt, src) ==
    IF ~key_position(self.keys, key_id) THEN "KeyInvalid"
    ELSE IF ~self.is_enabled THEN "ProjectInactive"
    ELSE IF origin_opt = <<>> THEN "Ok"
    ELSE LET parsed == try_from(origin_opt[1])
         IN  IF ~parsed.ok THEN "OriginNotAllowed"
             ELSE dispatch(self, parsed.origin, src)

\* validate_access that grants a request without origin only when the
\* allowed_origins list is empty
validate_access_none_checked(self, key_id, origin_opt, src) ==
    IF ~self.is_enabled THEN "ProjectInactive"
    ELSE IF ~key_position(self.keys, key_id) THEN "KeyInvalid"
    ELSE IF origin_opt = <<>>
    THEN (IF self.allowed_origins = <<>> THEN "Ok" ELSE "OriginNotAllowed")
    ELSE LET parsed == try_from(origin_opt[1])
         IN  IF ~parsed.ok THEN "OriginNotAllowed"
             ELSE dispatch(self, parsed.origin, src)

\* validate_access that tests the consulted list for emptiness before it
\* parses the presented origin
validate_access_empty_first(self, key_id, origin_opt, src) ==
    IF ~self.is_enabled THEN "ProjectInactive"
    ELSE IF ~key_position(self.keys, key_id) THEN "KeyInvalid"
    ELSE IF origin_opt = <<>> THEN "Ok"
    ELSE IF (CASE src = "Header"      -> self.allowed_origins
               [] src = "BundleId"    -> self.bundle_ids
               [] src = "PackageName" -> self.package_names) = <<>>
    THEN "Ok"
    ELSE LET parsed == try_from(origin_opt[1])
         IN  IF ~parsed.ok THEN "OriginNotAllowed"
             ELSE dispatch(self, parsed.origin, src)

\* ProjectData::validate_access; origin_opt is <<>> (None) or <<string>>
validate_access(self, key_id, origin_opt, src) ==
    IF ~self.is_enabled THEN "ProjectInactive"
    ELSE IF ~key_position(self.keys, key_id) THEN "KeyInvalid"
    ELSE IF origin_opt = <<>> THEN "Ok"
    ELSE LET parsed == try_from(origin_opt[1])
         IN  IF ~parsed.ok THEN "OriginNotAllowed"
             ELSE dispatch(self, parsed.origin, src)

----------------------------------------------------------------------------
(* Registry client and project cache. *)

\* char::is_ascii_hexdigit
HexChars ==
    AsciiDigits \cup {"a", "b", "c", "d", "e", "f", "A", "B", "C", "D", "E", "F"}

\* str::len counts bytes: every character of the model is one byte long in
\* UTF-8 but U+00E9, which is two
RECURSIVE ByteLen(_)
ByteLen(s) ==
    IF s = <<>> THEN 0
    ELSE (IF Head(s) = "U+00E9" THEN 2 ELSE 1) + ByteLen(Tail(s))

is_hex_string(string) == \A i \in 1..Len(string) : string[i] \in HexChars

PROJECT_ID_LEN == 32

\* is_valid_project_id with the length test only
is_valid_project_id_len_only(project_id) ==
    ByteLen(project_id) = PROJECT_ID_LEN

is_valid_project_id(project_id) ==
    ByteLen(project_id) = PROJECT_ID_LEN /\ is_hex_string(project_id)

INVALID_TOKEN_ERROR == "invalid auth token"

UNAUTHORIZED == 401

NOT_FOUND == 404

\* StatusCode::is_success
is_success(code) == 200 <= code /\ code < 300

\* RegistryResult<Option<T>>: kind is "Some", "None" or "Err"
NoValue == [kind |-> "NotReturned", err |-> <<>>]

Some == [kind |-> "Some", err |-> <<>>]

None == [kind |-> "None", err |-> <<>>]

Err(e) == [kind |-> "Err", err |-> e]

\* parse_http_response that reports a missing project as an error
parse_http_response_not_found_is_error(status, body_ok) ==
    IF is_success(status)
    THEN (IF body_ok THEN Some ELSE Err(<<"ResponseJsonParse">>))
    ELSE IF status = UNAUTHORIZED THEN Err(<<"Config", INVALID_TOKEN_ERROR>>)
    ELSE Err(<<"Response">>)

\* parse_http_response: body_ok says whether the body deserializes as T
parse_http_response(status, body_ok) ==
    IF is_success(status)
    THEN (IF body_ok THEN Some ELSE Err(<<"ResponseJsonParse">>))
    ELSE IF status = UNAUTHORIZED THEN Err(<<"Config", INVALID_TOKEN_ERROR>>)
    ELSE IF status = NOT_FOUND THEN None
    ELSE Err(<<"Response">>)

\* the fetches of RegistryClient and the requests each sends, in order, as
\* long as every response yields Some
Fetches ==
    {"project_data", "project_data_with_quota", "project_limits",
     "project_data_with_limits", "project_features",
     "project_data_with_limits_and_features"}

build_explorer_url(quota) ==
    IF quota THEN "/internal/project/key/{project_id}?quotas=true"
    ELSE "/internal/project/key/{project_id}"

build_internal_api_url == "/internal/v1/project-limits?projectId={project_id}"

build_features_url == "/appkit/v1/config?projectId={project_id}"

Requests(call) ==
    CASE call = "project_data"            -> <<build_explorer_url(FALSE)>>
      [] call = "project_data_with_quota" -> <<build_explorer_url(TRUE)>>
      [] call = "project_limits"          -> <<build_internal_api_url>>
      [] call = "project_features"        -> <<build_features_url>>
      [] call = "project_data_with_limits" ->
           <<build_explorer_url(FALSE), build_internal_api_url>>
      [] call = "project_data_with_limits_and_features" ->
           <<build_explorer_url(FALSE), build_internal_api_url, build_features_url>>

\* no fetch has been called
NoFetch ==
    [op |-> "none", project_id |-> <<>>, pc |-> "idle", stage |-> 0,
     sent |-> <<>>, status |-> 0, body_ok |-> FALSE,
     parsed |-> NoValue, returned |-> NoValue]

\* nothing stored, nothing spawned, no call made
NoCache ==
    [cache_ttl |-> "none", store |-> <<>>, spawned |-> {}, sets |-> <<>>,
     fetched |-> <<>>]

RegistryIdle ==
    /\ registry = NoFetch
    /\ cache = NoCache

----------------------------------------------------------------------------
(* The inputs: project records and requests. *)

KeyIds == {"k1", "k2"}

\* keys a project may hold: the key "k1", valid or invalidated
ProjectKeys == [value : {"k1"}, is_valid : BOOLEAN]

\* allow-list entries: plain, wildcarded with scheme and port, malformed,
\* and the reverse of a local host
Entries ==
    { <<"a", ".", "b">>,
      <<"h", ":", "/", "/", "*", ".", "b", ":", "1">>,
      <<>>,
      <<"1", ".", "0", ".", "0", ".", "1", "2", "7">> }

\* origin strings a request may present
PresentedOrigins ==
    { <<>>,
      <<"a", ":", "9", "9", "9", "9", "9">>,
      <<"l", "o", "c", "a", "l", "h", "o", "s", "t">>,
      <<"s", ":", "/", "/", "1", "2", "7", ".", "0", ".", "0", ".", "1", ":", "1">>,
      <<"l", "o", "c", "a", "l", "h", "o", "s", "t", ".", "a">>,
      <<"a", ".", "b">>,
      <<"b", ".", "a">>,
      <<"h", ":", "/", "/", "c", ".", "b", ":", "1">>,
      <<"s", ":", "/", "/", "c", ".", "b", ":", "1">> }

SeqsUpTo(S, n) == UNION { [1..k -> S] : k \in 0..n }

\* the three allow-lists of a project: every way to cut a sequence of at most
\* MaxEntries entries into allowed_origins, bundle_ids and package_names
AllowLists ==
    { <<SubSeq(q, 1, i), SubSeq(q, i + 1, j), SubSeq(q, j + 1, Len(q))>> :
        <<q, i, j>> \in { t \in SeqsUpTo(Entries, MaxEntries)
                                  \X (0..MaxEntries) \X (0..MaxEntries) :
                            t[2] <= t[3] /\ t[3] <= Len(t[1]) } }

Projects ==
    { [is_enabled      |-> e,
       keys            |-> ks,
       allowed_origins |-> ls[1],
       bundle_ids      |-> ls[2],
       package_names   |-> ls[3]] :
        e \in BOOLEAN, ks \in SeqsUpTo(ProjectKeys, MaxKeys), ls \in AllowLists }

----------------------------------------------------------------------------
(* The state machine: a project record and one call of validate_access on  *)
(* it.  The call borrows the record immutably, so a further call would     *)
(* start from the same record; the state keeps the call and its result.    *)

\* no matcher call is recorded
MatchIdle ==
    /\ lhs = NoOrigin
    /\ rhs = NoOrigin
    /\ op = "none"
    /\ verdict = FALSE

NotParsed == [ok |-> FALSE, err |-> "NotParsed", origin |-> NoOrigin]

\* no parser call is recorded
ParseIdle ==
    /\ input = <<>>
    /\ tail = <<>>
    /\ parse_out = NotParsed
    /\ tail_out = NotParsed
    /\ shown = <<>>

Init ==
    /\ project \in Projects
    /\ id = "k1"
    /\ auth_origin = <<>>
    /\ source = "Header"
    /\ result = "NotCalled"
    /\ alt = <<>>
    /\ tasks = <<>>
    /\ MatchIdle
    /\ ParseIdle
    /\ RegistryIdle

ValidateAccess(key_id, origin_opt, src) ==
    /\ result = "NotCalled"
    /\ id' = key_id
    /\ auth_origin' = origin_opt
    /\ source' = src
    /\ result' = validate_access(project, key_id, origin_opt, src)
    /\ UNCHANGED <<project, alt, tasks, matchVars, parseVars, registryVars>>

Next ==
    \E key_id \in KeyIds,
       origin_opt \in {<<>>} \cup { <<o>> : o \in PresentedOrigins },
       src \in OriginSource :
        ValidateAccess(key_id, origin_opt, src)

Spec == Init /\ [][Next]_vars

TypeOK ==
    /\ project \in Projects
    /\ id \in KeyIds
    /\ source \in OriginSource
    /\ result \in {"NotCalled", "Ok", "ProjectInactive", "KeyInvalid", "OriginNotAllowed"}

----------------------------------------------------------------------------
(* The matcher on its own: a pair of parsed origins and one call of        *)
(* matches, matches_rev or matches_opt on it.  The call of matches_opt     *)
(* records the verdict under every policy.                                 *)

\* no validate_access call is recorded
AccessIdle ==
    /\ project = [is_enabled |-> FALSE, keys |-> <<>>, allowed_origins |-> <<>>,
                  bundle_ids |-> <<>>, package_names |-> <<>>]
    /\ id = "k1"
    /\ auth_origin = <<>>
    /\ source = "Header"
    /\ result = "NotCalled"
    /\ alt = <<>>
    /\ tasks = <<>>

\* hostname segments: two that differ in case only, and the wildcard
Segments == { <<"a">>, <<"A">>, <<"*">> }

SchemePrefixes ==
    { <<>>, <<"h", ":", "/", "/">>, <<"c", "-", "s", ":", "/", "/">> }

PortSuffixes == { <<>>, <<":", "1">>, <<":", "2">> }

\* the origin strings the matcher's operands are parsed from
MatchStrings ==
    { p \o Join(segs, ".") \o q :
        p \in SchemePrefixes,
        segs \in SeqsUpTo(Segments, MaxSegs) \ {<<>>},
        q \in PortSuffixes }

Origins == { try_from(s).origin : s \in MatchStrings }

MatchInit ==
    /\ lhs \in Origins
    /\ rhs \in Origins
    /\ op = "none"
    /\ verdict = FALSE
    /\ AccessIdle
    /\ ParseIdle
    /\ RegistryIdle

Matches ==
    /\ op = "none"
    /\ op' = "matches"
    /\ verdict' = matches(lhs, rhs)
    /\ UNCHANGED <<lhs, rhs, accessVars, parseVars, registryVars>>

MatchesRev ==
    /\ op = "none"
    /\ op' = "matches_rev"
    /\ verdict' = matches_rev(lhs, rhs)
    /\ UNCHANGED <<lhs, rhs, accessVars, parseVars, registryVars>>

MatchesOpt ==
    /\ op = "none"
    /\ op' = "matches_opt"
    /\ verdict' = [policy \in MatchingPolicy |-> matches_opt(lhs, rhs, policy)]
    /\ UNCHANGED <<lhs, rhs, accessVars, parseVars, registryVars>>

MatchNext == Matches \/ MatchesRev \/ MatchesOpt

MatchSpec == MatchInit /\ [][MatchNext]_vars

----------------------------------------------------------------------------
(* Vocabulary of the properties: the call the state records. *)

Called == result # "NotCalled"

\* project.keys holds an entry for the presented key id that is valid
ValidKeyHeld ==
    \E k \in { project.keys[i] : i \in DOMAIN project.keys } :
        k.value = id /\ k.is_valid

Presented == auth_origin # <<>>

\* the presented origin string parses
PresentedParses == Presented /\ try_from(auth_origin[1]).ok

\* the parsed presented origin (meaningful when PresentedParses)
PresentedOrigin == try_from(auth_origin[1]).origin

LocalHostname == PresentedOrigin.hostname \in ALLOWED_LOCAL_HOSTS

\* the allow-list the source kind consults first
ConsultedList(p, src) ==
    CASE src = "Header"      -> p.allowed_origins
      [] src = "BundleId"    -> p.bundle_ids
      [] src = "PackageName" -> p.package_names

Parses(entry) == try_from(entry).ok

\* entry parses and matches the presented origin in forward segment order
ForwardMatch(entry) ==
    Parses(entry) /\ matches(try_from(entry).origin, PresentedOrigin)

\* entry parses and matches the presented origin in reverse segment order
ReverseMatch(entry) ==
    Parses(entry) /\ matches_rev(try_from(entry).origin, PresentedOrigin)

EntriesOf(list) == { list[i] : i \in DOMAIN list }

\* enabled project, valid key, presented origin that parses
Admitted == Called /\ project.is_enabled /\ ValidKeyHeld /\ PresentedParses

MobileSource == source \in {"BundleId", "PackageName"}

----------------------------------------------------------------------------
(* Properties of validate_access. *)

\* C1: a call on a disabled project returns ProjectInactive, for every key id,
\* every presented origin and every source kind.
C1_DisabledProjectInactive ==
    (Called /\ ~project.is_enabled) => result = "ProjectInactive"

\* a disabled project, a key that is not valid and an origin that does not
\* parse: ProjectInactive wins over both other errors
C1_Witness ==
    /\ Called
    /\ ~project.is_enabled
    /\ ~ValidKeyHeld
    /\ Presented /\ ~PresentedParses
    /\ result = "ProjectInactive"

\* C2: on an enabled project the call returns KeyInvalid exactly when no entry
\* of project.keys has the presented value and is valid, whatever the origin.
C2_KeyInvalidIff ==
    (Called /\ project.is_enabled) => (result = "KeyInvalid" <=> ~ValidKeyHeld)

\* a known but invalidated key with a local-host origin that the header check
\* would accept
C2_Witness ==
    /\ Called
    /\ project.is_enabled
    /\ project.keys = <<[value |-> "k1", is_valid |-> FALSE]>>
    /\ id = "k1"
    /\ source = "Header"
    /\ PresentedParses /\ LocalHostname
    /\ result = "KeyInvalid"

\* C3: without a presented origin an enabled project with a valid key returns
\* Ok for every source kind and whatever the three allow-lists contain.
C3_NoOriginOk ==
    (Called /\ project.is_enabled /\ ValidKeyHeld /\ ~Presented) => result = "Ok"

\* no origin, source BundleId, bundle_ids holding only a malformed entry
C3_Witness ==
    /\ Called
    /\ project.is_enabled /\ ValidKeyHeld /\ ~Presented
    /\ source = "BundleId"
    /\ project.bundle_ids # <<>>
    /\ \A e \in EntriesOf(project.bundle_ids) : ~Parses(e)
    /\ project.allowed_origins # <<>>
    /\ result = "Ok"

\* C4: with an enabled project and a valid key, a presented origin that the
\* parser rejects gives OriginNotAllowed for every source kind, also when the
\* consulted allow-list is empty.
C4_ParseFailureDenied ==
    (Called /\ project.is_enabled /\ ValidKeyHeld /\ Presented /\ ~PresentedParses)
        => result = "OriginNotAllowed"

\* an origin rejected for its port number, with an empty consulted list
C4_Witness ==
    /\ Called
    /\ project.is_enabled /\ ValidKeyHeld /\ Presented
    /\ try_from(auth_origin[1]).err = "InvalidPortNumber"
    /\ source = "PackageName"
    /\ project.package_names = <<>>
    /\ result = "OriginNotAllowed"

\* C5 as stated: for a mobile source with a non-empty own list, an origin that
\* matches none of that list's entries is denied.
C5_UnmatchedDenied ==
    ( /\ Admitted /\ MobileSource
      /\ ConsultedList(project, source) # <<>>
      /\ \A e \in EntriesOf(ConsultedList(project, source)) : ~ForwardMatch(e) )
        => result = "OriginNotAllowed"

\* C5 amended: for a mobile source with a non-empty own list, an origin that
\* matches none of that list's entries is denied unless its hostname is a
\* local host or an allowed_origins entry matches it forward or in reverse.
C5_UnmatchedDeniedUnlessFallback ==
    ( /\ Admitted /\ MobileSource
      /\ ConsultedList(project, source) # <<>>
      /\ \A e \in EntriesOf(ConsultedList(project, source)) : ~ForwardMatch(e)
      /\ ~LocalHostname
      /\ \A e \in EntriesOf(project.allowed_origins) :
            ~ForwardMatch(e) /\ ~ReverseMatch(e) )
        => result = "OriginNotAllowed"

\* a bundle id that matches no bundle_ids entry and no allowed_origins entry,
\* with allowed_origins empty
C5_Witness ==
    /\ Admitted
    /\ source = "BundleId"
    /\ project.bundle_ids # <<>>
    /\ \E e \in EntriesOf(project.bundle_ids) : Parses(e)
    /\ \A e \in EntriesOf(project.bundle_ids) : ~ForwardMatch(e)
    /\ ~LocalHostname
    /\ project.allowed_origins = <<>>
    /\ result = "OriginNotAllowed"

\* C6: an empty consulted allow-list allows every presented origin that
\* parses, whatever the other two lists contain.
C6_EmptyListAllowsAll ==
    (Admitted /\ ConsultedList(project, source) = <<>>) => result = "Ok"

\* source BundleId, bundle_ids empty, allowed_origins non-empty without a
\* match and a hostname that is not local
C6_Witness ==
    /\ Admitted
    /\ source = "BundleId"
    /\ project.bundle_ids = <<>>
    /\ project.allowed_origins # <<>>
    /\ \A e \in EntriesOf(project.allowed_origins) :
          ~ForwardMatch(e) /\ ~ReverseMatch(e)
    /\ ~LocalHostname
    /\ result = "Ok"

\* a host name that starts with a local host name without being one
LocalLookalike ==
    /\ ~LocalHostname
    /\ \E host \in ALLOWED_LOCAL_HOSTS : IsPrefix(host, PresentedOrigin.hostname)

\* C7: for source Header a hostname that is exactly localhost or 127.0.0.1 is
\* allowed whatever its scheme and port and whatever allowed_origins holds; a
\* hostname that only starts with one of them gets no bypass and is denied
\* when allowed_origins is non-empty and no entry matches.
C7_LocalHostBypass ==
    (Admitted /\ source = "Header") =>
        /\ LocalHostname => result = "Ok"
        /\ ( /\ LocalLookalike
             /\ project.allowed_origins # <<>>
             /\ \A e \in EntriesOf(project.allowed_origins) :
                   ~ForwardMatch(e) /\ ~ReverseMatch(e) )
              => result = "OriginNotAllowed"

\* 127.0.0.1 with a scheme and a port against an allowed_origins list that
\* parses and does not match
C7_Witness ==
    /\ Admitted
    /\ source = "Header"
    /\ LocalHostname
    /\ PresentedOrigin.scheme # <<>> /\ PresentedOrigin.port # <<>>
    /\ project.allowed_origins # <<>>
    /\ \A e \in EntriesOf(project.allowed_origins) :
          Parses(e) /\ ~ForwardMatch(e) /\ ~ReverseMatch(e)
    /\ result = "Ok"

\* C8: for source Header with a non-empty allowed_origins and a hostname that
\* is not local, the call returns Ok exactly when some parseable entry matches
\* the presented origin forward or in reverse, and OriginNotAllowed otherwise.
C8_HeaderForwardOrReverse ==
    (Admitted /\ source = "Header" /\ project.allowed_origins # <<>> /\ ~LocalHostname)
        => /\ result \in {"Ok", "OriginNotAllowed"}
           /\ result = "Ok" <=>
                \E e \in EntriesOf(project.allowed_origins) :
                    ForwardMatch(e) \/ ReverseMatch(e)

\* an origin that only the reverse comparison accepts
C8_Witness ==
    /\ Admitted
    /\ source = "Header"
    /\ ~LocalHostname
    /\ project.allowed_origins # <<>>
    /\ \A e \in EntriesOf(project.allowed_origins) : ~ForwardMatch(e)
    /\ \E e \in EntriesOf(project.allowed_origins) : ReverseMatch(e)
    /\ result = "Ok"

\* entry parses and its segments are those of the presented origin read
\* back-to-front, and not those read front-to-back
ReversedSegmentsOnly(entry) ==
    /\ Parses(entry)
    /\ LET mine   == try_from(entry).origin.hostname_parts
           theirs == PresentedOrigin.hostname_parts
       IN  /\ Len(mine) = Len(theirs)
           /\ \A i \in 1..Len(mine) : mine[i] = theirs[Len(mine) + 1 - i]
           /\ mine # theirs

\* C9 as stated: for a mobile source, when an entry of the own list equals the
\* presented origin only back-to-front (and no entry matches forward) and
\* allowed_origins is empty, the call returns OriginNotAllowed.
C9_ReverseNotGranted ==
    ( /\ Admitted /\ MobileSource
      /\ project.allowed_origins = <<>>
      /\ \E e \in EntriesOf(ConsultedList(project, source)) : ReversedSegmentsOnly(e)
      /\ \A e \in EntriesOf(ConsultedList(project, source)) : ~ForwardMatch(e) )
        => result = "OriginNotAllowed"

\* C9 amended: the same, for a presented hostname that is not localhost or
\* 127.0.0.1.
C9_ReverseNotGrantedNonLocal ==
    ( /\ Admitted /\ MobileSource
      /\ project.allowed_origins = <<>>
      /\ \E e \in EntriesOf(ConsultedList(project, source)) : ReversedSegmentsOnly(e)
      /\ \A e \in EntriesOf(ConsultedList(project, source)) : ~ForwardMatch(e)
      /\ ~LocalHostname )
        => result = "OriginNotAllowed"

\* package name b.a against the entry a.b, allowed_origins empty
C9_Witness ==
    /\ Admitted
    /\ source = "PackageName"
    /\ project.allowed_origins = <<>>
    /\ \E e \in EntriesOf(project.package_names) :
          ReversedSegmentsOnly(e) /\ ReverseMatch(e)
    /\ ~LocalHostname
    /\ result = "OriginNotAllowed"

\* the project with the entries that fail to parse removed from the list the
\* source kind consults
WithoutMalformed(p, src) ==
    CASE src = "Header" ->
            [p EXCEPT !.allowed_origins = SelectSeq(p.allowed_origins, Parses)]
      [] src = "BundleId" ->
            [p EXCEPT !.bundle_ids = SelectSeq(p.bundle_ids, Parses)]
      [] src = "PackageName" ->
            [p EXCEPT !.package_names = SelectSeq(p.package_names, Parses)]

\* C10: the call returns the same result when every entry that fails to parse
\* is removed from the consulted allow-list.
C10_MalformedEntriesInert ==
    Called =>
        result = validate_access(WithoutMalformed(project, source), id, auth_origin, source)

\* C11: for a mobile source whose own list is non-empty and has no entry that
\* forward-matches, allowed_origins is the fallback: the result is Ok exactly
\* when the header check accepts the origin (a local hostname, or a forward or
\* reverse match of some allowed_origins entry); an empty allowed_origins is
\* not allow-all there, so a non-local hostname is then denied.
C11_FallbackToAllowedOrigins ==
    ( /\ Admitted /\ MobileSource
      /\ ConsultedList(project, source) # <<>>
      /\ \A e \in EntriesOf(ConsultedList(project, source)) : ~ForwardMatch(e) )
        => /\ result \in {"Ok", "OriginNotAllowed"}
           /\ result = "Ok" <=>
                \/ LocalHostname
                \/ \E e \in EntriesOf(project.allowed_origins) :
                      ForwardMatch(e) \/ ReverseMatch(e)
           /\ (project.allowed_origins = <<>> /\ ~LocalHostname)
                => result = "OriginNotAllowed"

\* a bundle id that no bundle_ids entry matches, granted by the reverse match
\* of an allowed_origins entry
C11_Witness ==
    /\ Admitted
    /\ source = "BundleId"
    /\ project.bundle_ids # <<>>
    /\ \A e \in EntriesOf(project.bundle_ids) : Parses(e) /\ ~ForwardMatch(e)
    /\ ~LocalHostname
    /\ \A e \in EntriesOf(project.allowed_origins) : ~ForwardMatch(e)
    /\ \E e \in EntriesOf(project.allowed_origins) : ReverseMatch(e)
    /\ result = "Ok"

----------------------------------------------------------------------------
(* Properties of the matcher. *)

\* both schemes are given and differ
SchemeClash == lhs.scheme # <<>> /\ rhs.scheme # <<>> /\ lhs.scheme # rhs.scheme

\* both ports are given and differ
PortClash == lhs.port # <<>> /\ rhs.port # <<>> /\ lhs.port # rhs.port

SameLength == Len(lhs.hostname_parts) = Len(rhs.hostname_parts)

\* every segment of lhs is the wildcard or equals the segment of rhs at the
\* same position
ForwardSegments ==
    /\ SameLength
    /\ \A i \in 1..Len(lhs.hostname_parts) :
          \/ lhs.hostname_parts[i] = WILDCARD
          \/ lhs.hostname_parts[i] = rhs.hostname_parts[i]

Reverse(s) == [i \in 1..Len(s) |-> s[Len(s) + 1 - i]]

\* every segment of lhs is the wildcard or equals the segment of rhs at the
\* mirrored position
ReverseSegments ==
    /\ SameLength
    /\ \A i \in 1..Len(lhs.hostname_parts) :
          \/ lhs.hostname_parts[i] = WILDCARD
          \/ lhs.hostname_parts[i] = Reverse(rhs.hostname_parts)[i]

\* C12: Origin::matches fails on the port check only if both origins give a
\* port and the ports differ; an origin without a port matches an otherwise
\* equal origin with any port, in both operand orders.
C12_PortLenient ==
    (op = "matches" /\ ~SchemeClash /\ ForwardSegments)
        => (verdict = FALSE <=> PortClash)

\* C13: Origin::matches fails on the scheme check only if both origins give a
\* scheme and the schemes differ: with equal ports and matching segments an
\* origin without a scheme matches any scheme, in both operand orders, and
\* two different schemes never match.
C13_SchemeLenient ==
    (op = "matches" /\ lhs.port = rhs.port /\ ForwardSegments)
        => (verdict = FALSE <=> SchemeClash)

\* an origin without a scheme on the self side against a custom scheme
C13_Witness ==
    /\ op = "matches"
    /\ lhs.scheme = <<>>
    /\ rhs.scheme = << <<"c", "-", "s">> >>
    /\ lhs.port = rhs.port /\ lhs.port # <<>>
    /\ lhs.hostname_parts = rhs.hostname_parts
    /\ verdict = TRUE

\* C14: in Origin::matches a "*" segment of self matches any segment of other
\* at its position, every other segment of self must equal other's segment
\* exactly (case included), and a "*" of other is an ordinary literal.
C14_WildcardOnSelfOnly ==
    (op = "matches" /\ ~SchemeClash /\ lhs.port = rhs.port /\ SameLength)
        => /\ verdict = TRUE <=>
                \A i \in 1..Len(lhs.hostname_parts) :
                    \/ lhs.hostname_parts[i] = <<"*">>
                    \/ lhs.hostname_parts[i] = rhs.hostname_parts[i]
           /\ (\E i \in 1..Len(lhs.hostname_parts) :
                  /\ rhs.hostname_parts[i] = <<"*">>
                  /\ lhs.hostname_parts[i] # <<"*">>)
                => verdict = FALSE
           /\ (\E i \in 1..Len(lhs.hostname_parts) :
                  /\ lhs.hostname_parts[i] = <<"a">>
                  /\ rhs.hostname_parts[i] = <<"A">>)
                => verdict = FALSE

\* self a.A against other a.* : the wildcard of other is a literal
C14_Witness ==
    /\ op = "matches"
    /\ ~SchemeClash /\ lhs.port = rhs.port
    /\ lhs.hostname_parts = << <<"a">>, <<"A">> >>
    /\ rhs.hostname_parts = << <<"a">>, <<"*">> >>
    /\ verdict = FALSE

\* C15: two origins whose hostname_parts differ in length never match: not
\* under matches, not in reverse, and under no policy of matches_opt, even
\* when every segment of self is the wildcard.
C15_LengthMustAgree ==
    (op # "none" /\ ~SameLength)
        => IF op = "matches_opt"
           THEN \A policy \in MatchingPolicy : verdict[policy] = FALSE
           ELSE verdict = FALSE

\* matches_opt on a self of wildcards only and an other of another length
C15_Witness ==
    /\ op = "matches_opt"
    /\ ~SameLength
    /\ \A i \in 1..Len(lhs.hostname_parts) : lhs.hostname_parts[i] = WILDCARD
    /\ lhs.scheme = rhs.scheme /\ lhs.port = rhs.port
    /\ \A policy \in MatchingPolicy : verdict[policy] = FALSE

\* C16: the reverse comparison of matches_opt (AllowBundleID) compares
\* self.hostname_parts[i] with other's segment at the mirrored position, the
\* wildcard recognised on the self side: an origin matches the origin with its
\* segments in reversed order, and without AllowBundleID, and under matches,
\* the same pair does not match unless the sequence is its own reverse.
C16_ReverseMatching ==
    /\ (op = "matches_opt" /\ lhs.scheme = rhs.scheme /\ lhs.port = rhs.port)
        => \A policy \in MatchingPolicy :
              /\ ("AllowBundleID" \in policy /\ ReverseSegments) => verdict[policy] = TRUE
              /\ ( /\ "AllowBundleID" \notin policy
                   /\ rhs.hostname_parts = Reverse(lhs.hostname_parts)
                   /\ rhs.hostname_parts # lhs.hostname_parts )
                    => verdict[policy] = FALSE
    /\ ( /\ op = "matches"
         /\ rhs.hostname_parts = Reverse(lhs.hostname_parts)
         /\ rhs.hostname_parts # lhs.hostname_parts )
        => verdict = FALSE

\* a.A against A.a under every policy
C16_Witness ==
    /\ op = "matches_opt"
    /\ lhs.scheme = rhs.scheme /\ lhs.port = rhs.port
    /\ lhs.hostname_parts = << <<"a">>, <<"A">> >>
    /\ rhs.hostname_parts = << <<"A">>, <<"a">> >>
    /\ verdict[DefaultPolicy \cup {"AllowBundleID"}] = TRUE
    /\ verdict[DefaultPolicy] = FALSE

----------------------------------------------------------------------------
(* The parser on its own: a string, one call of Origin::try_from on it,    *)
(* the Display output of the result, and a call of Origin::try_from on the *)
(* string with a suffix appended.                                          *)

\* the characters the parser tells apart, a letter and an ASCII digit
Alphabet == {"a", ":", "/", ".", "1"}

RawStrings == SeqsUpTo(Alphabet, MaxLen)

\* digit runs around the limit of u16, with leading zeros, outside ASCII
PortRuns ==
    { <<"0">>, <<"7">>, <<"0", "0", "7">>,
      <<"6", "5", "5", "3", "5">>, <<"6", "5", "5", "3", "6">>,
      <<"9", "9", "9", "9", "9">>, <<"0", "6", "5", "5", "3", "5">>,
      <<"0", "0", "6", "5", "5", "3", "6">>,
      <<"U+0663">>, <<"1", "U+0663">> }

PortStrings ==
    { p \o <<"a", ":">> \o d :
        p \in {<<>>, <<"h", ":", "/", "/">>}, d \in PortRuns }

\* suffixes beginning with '/'
Tails ==
    { <<"/">>, <<"/", "a">>, <<"/", "/", "a">>, <<"/", "a", ":", "1">> }

ParseInit ==
    /\ input \in RawStrings \cup PortStrings \cup MatchStrings
    /\ parse_out = NotParsed
    /\ shown = <<>>
    /\ tail = <<>>
    /\ tail_out = NotParsed
    /\ AccessIdle
    /\ MatchIdle
    /\ RegistryIdle

\* Origin::try_from(input)
Parse ==
    /\ parse_out = NotParsed
    /\ parse_out' = try_from(input)
    /\ UNCHANGED <<input, shown, tail, tail_out, accessVars, matchVars, registryVars>>

\* origin.to_string() on the parsed origin
Display ==
    /\ parse_out.ok
    /\ shown = <<>>
    /\ shown' = <<fmt(parse_out.origin)>>
    /\ UNCHANGED <<input, parse_out, tail, tail_out, accessVars, matchVars, registryVars>>

\* Origin::try_from(input ++ t)
ParseWithTail(t) ==
    /\ parse_out # NotParsed
    /\ tail = <<>>
    /\ tail' = t
    /\ tail_out' = try_from(input \o t)
    /\ UNCHANGED <<input, parse_out, shown, accessVars, matchVars, registryVars>>

ParseNext ==
    \/ Parse
    \/ Display
    \/ \E t \in Tails : ParseWithTail(t)

ParseSpec == ParseInit /\ [][ParseNext]_vars

----------------------------------------------------------------------------
(* Properties of the parser. *)

Parsed == parse_out # NotParsed

\* s begins with a non-empty colon-free run, "://" and a hostname character
SchemeForm(s) ==
    \E c \in 2..Len(s) :
        /\ \A i \in 1..(c - 1) : s[i] # ":"
        /\ c + 3 <= Len(s)
        /\ SubSeq(s, c, c + 2) = <<":", "/", "/">>
        /\ s[c + 3] \notin {":", "/"}

\* where the hostname of s begins
HostStart(s) == IF SchemeForm(s) THEN RunNotIn(s, 1, {":"}) + 3 ELSE 1

\* the run of decimal digits that follows "<hostname>:" in s, <<>> if none
PortRun(s) ==
    LET j == RunNotIn(s, HostStart(s), {":", "/"})
    IN  IF j > HostStart(s) /\ HasAt(s, j, ":")
        THEN SubSeq(s, j + 1, RunIn(s, j + 1, DigitChars) - 1)
        ELSE <<>>

\* the number a run of decimal digits denotes, ASCII or not
RECURSIVE RunValue(_)
RunValue(ds) ==
    IF ds = <<>> THEN 0
    ELSE RunValue(SubSeq(ds, 1, Len(ds) - 1)) * 10
         + (IF ds[Len(ds)] = "U+0663" THEN 3 ELSE DigitValue(ds[Len(ds)]))

AllAscii(ds) == \A i \in 1..Len(ds) : ds[i] \in AsciiDigits

\* C17: parsing fails with InvalidPortNumber exactly when a run of decimal
\* digits follows "<hostname>:" and its value exceeds 65535; every digit run
\* with value 0..65535 is accepted and stored as the port.
C17_PortErrorIffOver ==
    Parsed =>
        /\ parse_out.err = "InvalidPortNumber"
              <=> (PortRun(input) # <<>> /\ RunValue(PortRun(input)) > U16_MAX)
        /\ (PortRun(input) # <<>> /\ RunValue(PortRun(input)) <= U16_MAX)
              => (parse_out.ok /\ parse_out.origin.port = <<RunValue(PortRun(input))>>)

\* every input that is not InvalidFormat parses to a non-empty hostname or
\* fails with InvalidPortNumber
HostnameOrPortError ==
    parse_out.err # "InvalidFormat"
        => \/ parse_out.ok /\ parse_out.origin.hostname # <<>>
           \/ parse_out.err = "InvalidPortNumber"

\* C18 as stated: parsing fails with InvalidFormat if and only if the input is
\* empty or begins with ':' or '/'; every other input parses to an Origin
\* with a non-empty hostname or fails with InvalidPortNumber.
C18_FormatErrorIffBadStart ==
    Parsed =>
        /\ parse_out.err = "InvalidFormat"
              <=> (input = <<>> \/ input[1] \in {":", "/"})
        /\ HostnameOrPortError

\* C18: parsing fails with InvalidFormat if and only if the input is empty,
\* begins with ':', or begins with '/' and is not a colon-free run followed
\* by "://" and a hostname character (the run is then the scheme); every
\* other input parses to an Origin with a non-empty hostname or fails with
\* InvalidPortNumber.
C18_FormatErrorIffNoHostname ==
    Parsed =>
        /\ parse_out.err = "InvalidFormat"
              <=> \/ input = <<>>
                  \/ input[1] = ":"
                  \/ input[1] = "/" /\ ~SchemeForm(input)
        /\ HostnameOrPortError

\* an input beginning with '/' that parses: the slash is in the scheme
C18_Witness ==
    /\ Parsed
    /\ input # <<>> /\ input[1] = "/"
    /\ parse_out.ok
    /\ parse_out.origin.scheme # <<>>
    /\ parse_out.origin.hostname # <<>>

\* a non-empty run without ':' and '/'
HostForm(s) == s # <<>> /\ \A i \in 1..Len(s) : s[i] \notin {":", "/"}

\* the decimal digits of a u16 as Display writes them
PortForm(ds) ==
    /\ ds # <<>>
    /\ AllAscii(ds)
    /\ Len(ds) = 1 \/ ds[1] # "0"
    /\ RunValue(ds) <= U16_MAX

\* host or host:port
HostPortForm(s) ==
    \/ HostForm(s)
    \/ \E k \in 2..(Len(s) - 1) :
          /\ s[k] = ":"
          /\ HostForm(SubSeq(s, 1, k - 1))
          /\ PortForm(SubSeq(s, k + 1, Len(s)))

\* scheme://host.host:port, scheme and port optional
CanonicalForm(s) ==
    \/ HostPortForm(s)
    \/ \E c \in 2..Len(s) :
          /\ \A i \in 1..(c - 1) : s[i] # ":"
          /\ c + 3 <= Len(s)
          /\ SubSeq(s, c, c + 2) = <<":", "/", "/">>
          /\ HostPortForm(SubSeq(s, c + 3, Len(s)))

\* C19: every origin string of the canonical form scheme://host.host:port
\* (scheme and port optional, the port written as Display writes a u16)
\* parses, and the Display output of the parsed Origin is the string itself.
C19_DisplayRoundTrip ==
    (Parsed /\ CanonicalForm(input))
        => /\ parse_out.ok
           /\ shown # <<>> => shown[1] = input

\* a string with scheme, two segments and port, displayed
C19_Witness ==
    /\ CanonicalForm(input)
    /\ parse_out.ok
    /\ parse_out.origin.scheme # <<>>
    /\ Len(parse_out.origin.hostname_parts) = 2
    /\ parse_out.origin.port # <<>>
    /\ shown = <<input>>

\* the suffix completes the "://" of a scheme that the string alone lacks
TailCompletesScheme == SchemeForm(input \o tail) /\ ~SchemeForm(input)

----------------------------------------------------------------------------
(* Further properties of the parser and the matcher. *)

\* the record is an Origin the parser can return
WellFormedOrigin(o) ==
    /\ o.hostname # <<>>
    /\ \A i \in 1..Len(o.hostname) : o.hostname[i] \notin {":", "/"}
    /\ o.hostname_parts # <<>>
    /\ Join(o.hostname_parts, ".") = o.hostname

\* C21: every Origin the parser produces has a non-empty hostname without ':'
\* and '/', a non-empty hostname_parts, and hostname_parts joined with '.' is
\* the hostname, empty segments between consecutive dots included.
C21_PartsJoinToHostname ==
    /\ parse_out.ok => WellFormedOrigin(parse_out.origin)
    /\ tail_out.ok => WellFormedOrigin(tail_out.origin)

\* a hostname with two consecutive dots: the empty segment is kept
C21_Witness ==
    /\ parse_out.ok
    /\ parse_out.origin.hostname = <<"a", ".", ".", "a">>
    /\ parse_out.origin.hostname_parts = << <<"a">>, <<>>, <<"a">> >>

\* the verdict of matches as the source's doc comment gives it: lenient
\* scheme, equal ports, equal segment count, forward wildcard comparison
ForwardVerdict == ~SchemeClash /\ lhs.port = rhs.port /\ ForwardSegments

\* C25: Origin::matches and Origin::matches_opt under MatchingPolicy::default()
\* return the same boolean on every pair of origins: lenient scheme check,
\* port equality with absence included, equal segment count, forward wildcard
\* comparison, no reverse matching.
C25_DefaultPolicyIsMatches ==
    /\ op = "matches" => verdict = ForwardVerdict
    /\ op = "matches_opt" => verdict[DefaultPolicy] = ForwardVerdict

\* under the default policy: an absent port against a present one fails, and
\* so does a pair that matches in reverse only
C25_Witness ==
    /\ op = "matches_opt"
    /\ ~SchemeClash /\ ForwardSegments
    /\ lhs.port = <<>> /\ rhs.port # <<>>
    /\ verdict[DefaultPolicy] = FALSE

\* what the flags Check and AllowEmpty say about one field of the two origins
FieldPasses(policy, check, allow_empty, mine, theirs) ==
    IF check \notin policy THEN TRUE
    ELSE IF allow_empty \in policy
         THEN ~(mine # <<>> /\ theirs # <<>> /\ mine # theirs)
         ELSE mine = theirs

HostnamePasses(policy) ==
    ForwardSegments \/ ("AllowBundleID" \in policy /\ ReverseSegments)

\* C26: in matches_opt scheme and port are each governed by their two flags
\* alike: without the Check flag the field is ignored, with the Check flag
\* alone the two values must be equal (absence included), with Check and
\* AllowEmpty the check fails only when both are present and differ, and an
\* AllowEmpty flag without its Check flag has no effect.
C26_FlagsGovernFields ==
    op = "matches_opt" =>
        \A policy \in MatchingPolicy :
            /\ verdict[policy] =
                  ( /\ FieldPasses(policy, "CheckScheme", "AllowEmptyScheme",
                                   lhs.scheme, rhs.scheme)
                    /\ FieldPasses(policy, "CheckPort", "AllowEmptyPort",
                                   lhs.port, rhs.port)
                    /\ HostnamePasses(policy) )
            /\ "CheckScheme" \notin policy
                  => verdict[policy] = verdict[policy \ {"AllowEmptyScheme"}]
            /\ "CheckPort" \notin policy
                  => verdict[policy] = verdict[policy \ {"AllowEmptyPort"}]

\* absent against present: ignored without the Check flag, a failure with the
\* Check flag alone, passed with AllowEmpty, for the port as for the scheme
C26_Witness ==
    /\ op = "matches_opt"
    /\ ForwardSegments
    /\ lhs.scheme = <<>> /\ rhs.scheme # <<>>
    /\ lhs.port # <<>> /\ rhs.port = <<>>
    /\ verdict[{}] = TRUE
    /\ verdict[{"AllowEmptyScheme", "AllowEmptyPort"}] = TRUE
    /\ verdict[{"CheckPort"}] = FALSE
    /\ verdict[{"CheckScheme"}] = FALSE
    /\ verdict[{"CheckScheme", "CheckPort"}] = FALSE
    /\ verdict[{"CheckScheme", "AllowEmptyScheme", "CheckPort", "AllowEmptyPort"}] = TRUE

----------------------------------------------------------------------------
(* Further properties of validate_access. *)

\* C23: for sources BundleId and PackageName, with the project enabled and the
\* key valid, a presented origin whose hostname is exactly "localhost" or
\* "127.0.0.1" is allowed whatever bundle_ids, package_names and
\* allowed_origins hold.
C23_LocalHostAllowedForMobile ==
    (Admitted /\ MobileSource /\ LocalHostname) => result = "Ok"

\* a local hostname that no entry of the own list and none of allowed_origins
\* matches, both lists non-empty
C23_Witness ==
    /\ Admitted
    /\ MobileSource
    /\ LocalHostname
    /\ ConsultedList(project, source) # <<>>
    /\ project.allowed_origins # <<>>
    /\ \A e \in EntriesOf(ConsultedList(project, source)) : ~ForwardMatch(e)
    /\ \A e \in EntriesOf(project.allowed_origins) :
          ~ForwardMatch(e) /\ ~ReverseMatch(e)
    /\ result = "Ok"

----------------------------------------------------------------------------
(* One request on several records: the record of the call, the records     *)
(* that differ from it in the lists the source kind does not consult, and  *)
(* the records that hold the same entries in another order or repeated.    *)

\* records with at most one key
VariantProjects == { p \in Projects : Len(p.keys) <= 1 }

\* the lists put in place of a list the call does not consult
OtherLists == {<<>>} \cup { <<e>> : e \in Entries }

\* the records that differ from p at most in the lists src does not consult
Unconsulted(p, src) ==
    CASE src = "Header" ->
           { [p EXCEPT !.bundle_ids = b, !.package_names = n] :
               b \in OtherLists, n \in OtherLists }
      [] src = "BundleId" ->
           { [p EXCEPT !.package_names = n] : n \in OtherLists }
      [] src = "PackageName" ->
           { [p EXCEPT !.bundle_ids = b] : b \in OtherLists }

Rotate(list) == IF list = <<>> THEN <<>> ELSE Tail(list) \o <<Head(list)>>

\* the entries of list in another order, or with one of them repeated
Rearrangements(list) ==
    LET orders == { list, Rotate(list), Rotate(Rotate(list)) }
    IN  orders \cup { Reverse(l) : l \in orders }
               \cup { list \o <<list[i]>> : i \in DOMAIN list }
               \cup { <<list[i]>> \o list : i \in DOMAIN list }

Rearranged(p) ==
    { [p EXCEPT !.allowed_origins = a, !.bundle_ids = b, !.package_names = n] :
        a \in Rearrangements(p.allowed_origins),
        b \in Rearrangements(p.bundle_ids),
        n \in Rearrangements(p.package_names) }

VariantInit ==
    /\ project \in VariantProjects
    /\ id = "k1"
    /\ auth_origin = <<>>
    /\ source = "Header"
    /\ result = "NotCalled"
    /\ alt = <<>>
    /\ tasks = <<>>
    /\ MatchIdle
    /\ ParseIdle
    /\ RegistryIdle

\* validate_access with the same arguments on project and on each of the
\* other records
ValidateAccessOnVariants(key_id, origin_opt, src) ==
    /\ result = "NotCalled"
    /\ id' = key_id
    /\ auth_origin' = origin_opt
    /\ source' = src
    /\ result' = validate_access(project, key_id, origin_opt, src)
    /\ alt' = [ v \in Unconsulted(project, src) \cup Rearranged(project) |->
                  validate_access(v, key_id, origin_opt, src) ]
    /\ UNCHANGED <<project, tasks, matchVars, parseVars, registryVars>>

VariantNext ==
    \E key_id \in KeyIds,
       origin_opt \in {<<>>} \cup { <<o>> : o \in PresentedOrigins },
       src \in OriginSource :
        ValidateAccessOnVariants(key_id, origin_opt, src)

VariantSpec == VariantInit /\ [][VariantNext]_vars

\* v differs from project at most in the lists the source kind does not
\* consult
DiffersInUnconsultedOnly(v) ==
    /\ v.is_enabled = project.is_enabled
    /\ v.keys = project.keys
    /\ v.allowed_origins = project.allowed_origins
    /\ source = "BundleId" => v.bundle_ids = project.bundle_ids
    /\ source = "PackageName" => v.package_names = project.package_names

\* C24: the decision depends only on the lists the source kind consults: two
\* records that differ only in bundle_ids and package_names give the same
\* result for every Header request, records that differ only in
\* package_names the same for every BundleId request, and records that
\* differ only in bundle_ids the same for every PackageName request.
C24_UnconsultedListsIgnored ==
    Called =>
        \A v \in DOMAIN alt : DiffersInUnconsultedOnly(v) => alt[v] = result

\* a bundle id denied on the record, and denied as well on a record whose
\* package_names holds an entry that matches it
C24_Witness ==
    /\ Admitted
    /\ source = "BundleId"
    /\ result = "OriginNotAllowed"
    /\ \E v \in DOMAIN alt :
          /\ DiffersInUnconsultedOnly(v)
          /\ \E e \in EntriesOf(v.package_names) : ForwardMatch(e)
          /\ alt[v] = "OriginNotAllowed"

\* v holds the entries of project, list by list, in any order and number
SameEntries(v) ==
    /\ v.is_enabled = project.is_enabled
    /\ v.keys = project.keys
    /\ EntriesOf(v.allowed_origins) = EntriesOf(project.allowed_origins)
    /\ EntriesOf(v.bundle_ids) = EntriesOf(project.bundle_ids)
    /\ EntriesOf(v.package_names) = EntriesOf(project.package_names)

\* C27: the allow-list check is an any-match: for every project, key,
\* presented origin and source kind validate_access returns the same result
\* under any permutation of the entries of the three lists and under
\* duplication of entries, so a parseable matching entry grants access
\* wherever it stands, also after malformed or non-matching entries.
C27_OrderAndRepetitionIgnored ==
    Called =>
        \A v \in DOMAIN alt : SameEntries(v) => alt[v] = result

\* a matching entry after a malformed one, and the same two entries in the
\* other order
C27_Witness ==
    /\ Admitted
    /\ ~LocalHostname
    /\ Len(ConsultedList(project, source)) = 2
    /\ ~Parses(ConsultedList(project, source)[1])
    /\ ForwardMatch(ConsultedList(project, source)[2])
    /\ result = "Ok"
    /\ \E v \in DOMAIN alt :
          /\ SameEntries(v)
          /\ ConsultedList(v, source) = Reverse(ConsultedList(project, source))
          /\ alt[v] = "Ok"

----------------------------------------------------------------------------
(* Several tasks call validate_access on one shared record.  A call goes   *)
(* through the function body check by check; the steps of different tasks  *)
(* interleave.  The record is borrowed immutably: no step writes it.       *)

Tasks == 1..MaxTasks

TaskProjects ==
    { [is_enabled      |-> e,
       keys            |-> <<k>>,
       allowed_origins |-> << <<"a", ".", "b">> >>,
       bundle_ids      |-> b,
       package_names   |-> <<>>] :
        e \in BOOLEAN, k \in ProjectKeys, b \in {<<>>, << <<"a", ".", "b">> >>} }

TaskOrigins ==
    { <<>>, << <<"b", ".", "a">> >>, << <<"a", ":", "9", "9", "9", "9", "9">> >> }

TaskSources == {"Header", "BundleId"}

NoCall ==
    [pc |-> "idle", key |-> "k1", origin |-> <<>>, src |-> "Header",
     parsed |-> NoOrigin, result |-> "NotCalled"]

TaskInit ==
    /\ project \in TaskProjects
    /\ tasks = [t \in Tasks |-> NoCall]
    /\ id = "k1"
    /\ auth_origin = <<>>
    /\ source = "Header"
    /\ result = "NotCalled"
    /\ alt = <<>>
    /\ MatchIdle
    /\ ParseIdle
    /\ RegistryIdle

TaskUnchanged == UNCHANGED <<project, id, auth_origin, source, result, alt,
                             matchVars, parseVars, registryVars>>

\* the call returns r
Return(t, r) == tasks' = [tasks EXCEPT ![t].pc = "done", ![t].result = r]

Goto(t, label) == tasks' = [tasks EXCEPT ![t].pc = label]

\* task t enters validate_access(id, auth_origin, source); a task that has
\* returned may call again
Call(t, key_id, origin_opt, src) ==
    /\ tasks[t].pc \in {"idle", "done"}
    /\ tasks' = [tasks EXCEPT ![t] =
                    [pc |-> "is_enabled", key |-> key_id, origin |-> origin_opt,
                     src |-> src, parsed |-> NoOrigin, result |-> "NotCalled"]]
    /\ TaskUnchanged

\* if !self.is_enabled { return Err(ProjectInactive) }
CheckEnabled(t) ==
    /\ tasks[t].pc = "is_enabled"
    /\ IF ~project.is_enabled THEN Return(t, "ProjectInactive")
       ELSE Goto(t, "keys")
    /\ TaskUnchanged

\* the key looked up is the one task 1 presented
CheckKey_of_first_task(t) ==
    /\ tasks[t].pc = "keys"
    /\ IF ~key_position(project.keys, tasks[1].key) THEN Return(t, "KeyInvalid")
       ELSE Goto(t, "auth_origin")
    /\ TaskUnchanged

\* self.keys.iter().position(..).ok_or(KeyInvalid)?
CheckKey(t) ==
    /\ tasks[t].pc = "keys"
    /\ IF ~key_position(project.keys, tasks[t].key) THEN Return(t, "KeyInvalid")
       ELSE Goto(t, "auth_origin")
    /\ TaskUnchanged

\* if let Some(auth_origin) = auth_origin { Origin::try_from(..)? } else { Ok }
ParseOrigin(t) ==
    /\ tasks[t].pc = "auth_origin"
    /\ IF tasks[t].origin = <<>> THEN Return(t, "Ok")
       ELSE LET parsed == try_from(tasks[t].origin[1])
            IN  IF ~parsed.ok THEN Return(t, "OriginNotAllowed")
                ELSE tasks' = [tasks EXCEPT ![t].pc = "source",
                                            ![t].parsed = parsed.origin]
    /\ TaskUnchanged

\* match source { .. }
Dispatch(t) ==
    /\ tasks[t].pc = "source"
    /\ Return(t, dispatch(project, tasks[t].parsed, tasks[t].src))
    /\ TaskUnchanged

TaskNext ==
    \E t \in Tasks :
        \/ \E key_id \in KeyIds, origin_opt \in TaskOrigins, src \in TaskSources :
              Call(t, key_id, origin_opt, src)
        \/ CheckEnabled(t)
        \/ CheckKey(t)
        \/ ParseOrigin(t)
        \/ Dispatch(t)

TaskSpec == TaskInit /\ [][TaskNext]_vars

Returned(t) == tasks[t].pc = "done"

SameArguments(t, u) ==
    /\ tasks[t].key = tasks[u].key
    /\ tasks[t].origin = tasks[u].origin
    /\ tasks[t].src = tasks[u].src

\* every returned call holds the decision of the call run alone, and calls
\* with equal arguments hold equal results
DecisionsAsAlone ==
    \A t \in Tasks :
        Returned(t) =>
            /\ tasks[t].result \in {"Ok", "ProjectInactive", "KeyInvalid", "OriginNotAllowed"}
            /\ tasks[t].result =
                  validate_access(project, tasks[t].key, tasks[t].origin, tasks[t].src)
            /\ \A u \in Tasks :
                  (Returned(u) /\ SameArguments(t, u))
                      => tasks[u].result = tasks[t].result

\* C22: validate_access is pure and safe to run concurrently: under any
\* interleaving of the calls of several tasks over one unmodified project
\* record each call returns the decision it returns when run alone (one of
\* Ok, ProjectInactive, KeyInvalid, OriginNotAllowed), calls with equal
\* arguments return equal results, and no step changes the record.
C22_ConcurrentCallsAsAlone ==
    /\ []DecisionsAsAlone
    /\ [][project' = project]_vars

\* two calls with different keys, interleaved, have returned different
\* decisions on the same record
C22_Witness ==
    /\ \A t \in Tasks : Returned(t)
    /\ tasks[1].key # tasks[2].key
    /\ tasks[1].result = "KeyInvalid"
    /\ tasks[2].result = "OriginNotAllowed"

----------------------------------------------------------------------------
(* The registry client: one fetch, from the call to the returned value.    *)

Repeat(c, n) == [i \in 1..n |-> c]

\* project ids around the required length: hex digits of both cases, a
\* letter that is no hex digit, a character of two bytes
ProjectIds ==
    {<<>>} \cup
    { Repeat(c, n) \o s :
        c \in {"a", "F", "0"},
        n \in (PROJECT_ID_LEN - 3)..PROJECT_ID_LEN,
        s \in { <<>>, <<"9">>, <<"g">>, <<"U+00E9">>, <<"b", "b">> } }

\* status codes of a response
Statuses == {200, 204, 299, 300, 400, 401, 403, 404, 500}

RegistryInit ==
    /\ registry = NoFetch
    /\ cache = NoCache
    /\ AccessIdle
    /\ MatchIdle
    /\ ParseIdle

RegistryUnchanged == UNCHANGED <<cache, accessVars, matchVars, parseVars>>

\* a fetch of the client is called
Fetch(call, project_id) ==
    /\ registry.pc = "idle"
    /\ registry' = [NoFetch EXCEPT !.op = call, !.project_id = project_id,
                                   !.pc = "check_id"]
    /\ RegistryUnchanged

\* if !is_valid_project_id(project_id) { return Ok(None) }
CheckId ==
    /\ registry.pc = "check_id"
    /\ IF ~is_valid_project_id(registry.project_id)
       THEN registry' = [registry EXCEPT !.pc = "done", !.returned = None]
       ELSE registry' = [registry EXCEPT !.pc = "send", !.stage = 1]
    /\ RegistryUnchanged

\* self.http_client.get(url).send()
Send ==
    /\ registry.pc = "send"
    /\ registry' =
          [registry EXCEPT
              !.pc = "await",
              !.sent = Append(@, [url        |-> Requests(registry.op)[registry.stage],
                                  project_id |-> registry.project_id])]
    /\ RegistryUnchanged

\* .await.map_err(RegistryError::Transport)?
TransportFails ==
    /\ registry.pc = "await"
    /\ registry' = [registry EXCEPT !.pc = "done", !.returned = Err(<<"Transport">>)]
    /\ RegistryUnchanged

\* the response arrives and parse_http_response(resp) runs; a fetch made of
\* several requests goes on while the values are Some
Respond(status, body_ok) ==
    /\ registry.pc = "await"
    /\ LET value == parse_http_response(status, body_ok)
       IN  registry' =
              IF value.kind = "Some" /\ registry.stage < Len(Requests(registry.op))
              THEN [registry EXCEPT !.status = status, !.body_ok = body_ok,
                                    !.parsed = value, !.pc = "send",
                                    !.stage = @ + 1]
              ELSE [registry EXCEPT !.status = status, !.body_ok = body_ok,
                                    !.parsed = value, !.pc = "done",
                                    !.returned = value]
    /\ RegistryUnchanged

RegistryNext ==
    \/ \E call \in Fetches, project_id \in ProjectIds : Fetch(call, project_id)
    \/ CheckId
    \/ Send
    \/ TransportFails
    \/ \E status \in Statuses, body_ok \in BOOLEAN : Respond(status, body_ok)

RegistrySpec == RegistryInit /\ [][RegistryNext]_vars

\* the id is exactly 32 ASCII hex characters
Hex32(project_id) ==
    /\ Len(project_id) = 32
    /\ \A i \in 1..Len(project_id) : project_id[i] \in HexChars

\* C28: every fetch among project_data, project_data_with_quota,
\* project_limits, project_features and project_data_with_limits that is
\* called with a project id that is not exactly 32 ASCII hex characters
\* returns Ok(None) and sends no HTTP request.
C28_InvalidIdSendsNothing ==
    ( /\ registry.op \in {"project_data", "project_data_with_quota",
                          "project_limits", "project_features",
                          "project_data_with_limits"}
      /\ ~Hex32(registry.project_id) )
        => /\ registry.sent = <<>>
           /\ registry.pc \in {"check_id", "done"}
           /\ registry.pc = "done" => registry.returned = None

\* an id of 32 characters, one of them no hex digit, on the fetch made of
\* two requests
C28_Witness ==
    /\ registry.op = "project_data_with_limits"
    /\ Len(registry.project_id) = 32
    /\ ~Hex32(registry.project_id)
    /\ registry.pc = "done"
    /\ registry.returned = None
    /\ registry.sent = <<>>

Responded == registry.status # 0

\* C29: the status of a registry response maps to exactly one outcome: any
\* 2xx yields Ok(Some(body)), or a ResponseJsonParse error when the body does
\* not deserialize; 401 yields Err(Config("invalid auth token")); 404 yields
\* Ok(None); every other status yields Err(Response(..)); a status that is
\* not a success never yields Some.
C29_StatusToOutcome ==
    Responded =>
        /\ registry.parsed =
              IF registry.status \in 200..299
              THEN (IF registry.body_ok THEN [kind |-> "Some", err |-> <<>>]
                    ELSE [kind |-> "Err", err |-> <<"ResponseJsonParse">>])
              ELSE IF registry.status = 401
              THEN [kind |-> "Err", err |-> <<"Config", "invalid auth token">>]
              ELSE IF registry.status = 404
              THEN [kind |-> "None", err |-> <<>>]
              ELSE [kind |-> "Err", err |-> <<"Response">>]
        /\ registry.status \notin 200..299 => registry.parsed.kind # "Some"
        /\ (registry.pc = "done" /\ registry.returned.err # <<"Transport">>)
              => registry.returned = registry.parsed

\* a fetch that got 404 on its first request and returned Ok(None)
C29_Witness ==
    /\ registry.pc = "done"
    /\ Len(registry.sent) = 1
    /\ registry.status = 404
    /\ registry.returned = [kind |-> "None", err |-> <<>>]

----------------------------------------------------------------------------
(* The project cache: ProjectStorage::set spawns the write and returns,    *)
(* the spawned write runs later or fails, ProjectStorage::fetch reads the  *)
(* store.  The store is the KeyValueStorage behind the cache: an entry     *)
(* holds the serialized value and its time to live, and may expire.        *)

CacheIds == { <<"a">>, <<"b">> }

\* enum CachedProject
CachedProject ==
    { <<"NotFound">>, <<"RegistryConfigError">>,
      <<"Found", [is_enabled |-> TRUE, keys |-> <<>>, allowed_origins |-> <<>>,
                  bundle_ids |-> <<>>, package_names |-> <<>>]>> }

\* format!("project-data/{id}")
build_cache_key(cache_id) ==
    <<"p", "r", "o", "j", "e", "c", "t", "-", "d", "a", "t", "a", "/">> \o cache_id

\* common::storage::serialize and its inverse
serialize(data) == <<"serialized", data>>

deserialize(bytes) == bytes[2]

\* no entry under the key
Absent == <<>>

CacheInit ==
    /\ cache = [cache_ttl |-> "cache_ttl",
                store     |-> [k \in { build_cache_key(i) : i \in CacheIds } |-> Absent],
                spawned   |-> {},
                sets      |-> <<>>,
                fetched   |-> <<>>]
    /\ registry = NoFetch
    /\ AccessIdle
    /\ MatchIdle
    /\ ParseIdle

CacheUnchanged == UNCHANGED <<registry, accessVars, matchVars, parseVars>>

\* ProjectStorage::set that waits for the write before it returns
Set_awaits_write(cache_id, data) ==
    /\ Len(cache.sets) < MaxCalls
    /\ cache' = [cache EXCEPT
                    !.sets = Append(@, [id |-> cache_id, data |-> data]),
                    !.store[build_cache_key(cache_id)] =
                        [bytes |-> serialize(data), ttl |-> cache.cache_ttl]]
    /\ CacheUnchanged

\* ProjectStorage::set: the write is spawned, the call returns
Set(cache_id, data) ==
    /\ Len(cache.sets) < MaxCalls
    /\ cache' = [cache EXCEPT
                    !.sets = Append(@, [id |-> cache_id, data |-> data]),
                    !.spawned = @ \cup { [n     |-> Len(cache.sets) + 1,
                                         key   |-> build_cache_key(cache_id),
                                         bytes |-> serialize(data),
                                         ttl   |-> cache.cache_ttl] }]
    /\ CacheUnchanged

\* the spawned task runs: cache.set_serialized(&cache_key, &serialized, ttl)
WriteCompletes(w) ==
    /\ w \in cache.spawned
    /\ cache' = [cache EXCEPT
                    !.spawned = @ \ {w},
                    !.store[w.key] = [bytes |-> w.bytes, ttl |-> w.ttl]]
    /\ CacheUnchanged

\* the spawned write fails: .ok() drops the error
WriteFails(w) ==
    /\ w \in cache.spawned
    /\ cache' = [cache EXCEPT !.spawned = @ \ {w}]
    /\ CacheUnchanged

\* the time to live of an entry runs out
Expire(k) ==
    /\ k \in DOMAIN cache.store
    /\ cache.store[k] # Absent
    /\ cache' = [cache EXCEPT !.store[k] = Absent]
    /\ CacheUnchanged

\* ProjectStorage::fetch: self.cache.get(&cache_key); fetched holds the most
\* recent call, with the number of set calls made before it and the writes
\* not yet run
CacheFetch(cache_id) ==
    /\ LET entry == cache.store[build_cache_key(cache_id)]
       IN  cache' = [cache EXCEPT
                        !.fetched =
                            << [id      |-> cache_id,
                                value   |-> IF entry = Absent THEN <<>>
                                            ELSE <<deserialize(entry.bytes)>>,
                                after   |-> Len(cache.sets),
                                pending |-> { w.n : w \in cache.spawned }] >>]
    /\ CacheUnchanged

CacheNext ==
    \/ \E cache_id \in CacheIds, data \in CachedProject : Set(cache_id, data)
    \/ \E w \in cache.spawned : WriteCompletes(w)
    \/ \E w \in cache.spawned : WriteFails(w)
    \/ \E k \in DOMAIN cache.store : Expire(k)
    \/ \E cache_id \in CacheIds : CacheFetch(cache_id)

CacheSpec == CacheInit /\ [][CacheNext]_vars

\* every write that has not run yet belongs to a set call that has returned,
\* and carries the key "project-data/{id}", the value and the configured TTL
SpawnedWritesWellFormed ==
    \A w \in cache.spawned :
        /\ w.n \in DOMAIN cache.sets
        /\ w.key = <<"p", "r", "o", "j", "e", "c", "t", "-", "d", "a", "t", "a", "/">>
                   \o cache.sets[w.n].id
        /\ w.bytes = <<"serialized", cache.sets[w.n].data>>
        /\ w.ttl = cache.cache_ttl

\* a fetch returns nothing or the value of an earlier set call for the id
\* whose write has run: the value of a write that has not run is not seen
FetchedValuesWereWritten ==
    \A j \in DOMAIN cache.fetched :
        LET f == cache.fetched[j]
        IN  f.value # <<>> =>
                \E n \in (1..f.after) \ f.pending :
                    cache.sets[n].id = f.id /\ cache.sets[n].data = f.value[1]

\* the step in which set returns writes nothing to the store and spawns the
\* write of that call
SetReturnsAtOnce ==
    Len(cache'.sets) > Len(cache.sets) =>
        /\ cache'.store = cache.store
        /\ \E w \in cache'.spawned \ cache.spawned : w.n = Len(cache'.sets)

\* what a set call has returned is never changed afterwards, whatever
\* becomes of its write
SetCallsKept ==
    \A n \in DOMAIN cache.sets : cache'.sets[n] = cache.sets[n]

\* C30: ProjectStorage::set is fire-and-forget: it returns without waiting
\* for the cache write, which runs in a separately spawned task under key
\* "project-data/{id}" with the configured TTL; a failure of that write is
\* discarded and never reaches the caller, and a fetch of the same id that
\* runs before the spawned write completes observes the previous cache
\* content, never the value of that write.
C30_SetFireAndForget ==
    /\ [](SpawnedWritesWellFormed /\ FetchedValuesWereWritten)
    /\ [][SetReturnsAtOnce /\ SetCallsKept]_vars

\* two set calls for one id, the second write not yet run: the fetch made
\* after both calls returned the value of the first
C30_Witness ==
    /\ Len(cache.sets) = 2
    /\ cache.sets[1].id = cache.sets[2].id
    /\ cache.sets[1].data # cache.sets[2].data
    /\ \E j \in DOMAIN cache.fetched :
          /\ cache.fetched[j].id = cache.sets[2].id
          /\ cache.fetched[j].after = 2
          /\ 2 \in cache.fetched[j].pending
          /\ cache.fetched[j].value = <<cache.sets[1].data>>

====
